---- MODULE Spec2Model ----
(***************************************************************************)
(* A model of the lang-explorer Python command line: the generation        *)
(* client (src/utils/client.py), the embedgen command                      *)
(* (src/commands/embeddings.py), the neigh command                         *)
(* (src/commands/nearest.py) and the histogram borders of                  *)
(* src/commands/experiment_processing.py.                                  *)
(*                                                                         *)
(* A command is a sequence of steps; pc is the position of the running     *)
(* command and err the exception that left it, if any.  Python exceptions  *)
(* are records [type, args].  An exception nothing catches ends the run at *)
(* the top-level invocation: pc = "failed".                                *)
(***************************************************************************)
EXTENDS Integers, Sequences, FiniteSets, TLC

VARIABLES
    pc,                    \* the position of the running command
    err,                   \* the exception that ended the run (main.py:65-66)
    args,                  \* args = parser.parse_args(...) (main.py:65)
    request,               \* what requests.post sent (client.py:86)
    response,              \* what requests.post answered (client.py:86)
    res,                   \* res of generate_embeddings (embeddings.py:11)
    document_collections,  \* embeddings.py:42
    model,                 \* embeddings.py:53
    files,                 \* the csv files written by to_csv (embeddings.py:102)
    data,                  \* data of nearest_neighbors (nearest.py:14-18)
    neighind,              \* nearest.py:31
    rendered,              \* the graphs rendered by the loop of nearest.py:44-61
    histogram_data,        \* experiment_processing.py:29
    centers,               \* experiment_processing.py:30
    borders,               \* experiment_processing.py:33
    bars,                  \* the bars drawn by plt.bar (experiment_processing.py:36)
    body,                  \* the body of a POST /embed (doc2vec-api/main.py:108)
    reply,                 \* what embed_documents returns (doc2vec-api/main.py:107-138)
    trained,               \* the corpora train_doc2vec trained on (doc2vec-api/main.py:51)
    runs,                  \* the runs of embedgen made so far: args and output1 (embeddings.py:66)
    scores,                \* data of similarity_correlation (similarity_correlation.py:10)
    analyses,              \* the analysis of each embedding system (similarity_correlation.py:25)
    handles,               \* the file objects that are open (experiment_processing.py:100, viz2.py:22)
    options,               \* options of data_viz2 (viz2.py:22)
    samples                \* the number of rows of data of data_viz2 (viz2.py:24-27)

vars == <<pc, err, args, request, response, res, document_collections, model,
          files, data, neighind, rendered, histogram_data, centers, borders,
          bars, body, reply, trained, runs, scores, analyses, handles, options,
          samples>>

embed_vars == <<args, request, response, res, document_collections, model, files>>
neigh_vars == <<data, neighind, rendered>>
hist_vars == <<histogram_data, centers, borders, bars>>
api_vars == <<body, reply, trained>>
path_vars == <<runs>>
corr_vars == <<scores, analyses>>
file_vars == <<handles, options, samples>>

----------------------------------------------------------------------------
(* Bounds of the model *)

\* The longest program list a response carries.
MaxPrograms == 2
\* The largest --dimensions argument.
MaxDim == 2
\* The longest table the neigh command reads.
MaxRows == 3
\* The longest histogram of an experiment file, and its largest bucket center.
MaxCenters == 3
MaxCenter == 4
\* The largest number of documents in a request to /embed.
MaxDocs == 2
\* The number of runs of embedgen whose output paths are compared.
MaxRuns == 2
\* The longest score column and the largest number of embedding systems of
\* the table that similarity_correlation reads.
MaxScores == 2
MaxSystems == 2

\* Program identifiers (the "program" text of a record), ordered as the
\* identifier strings are.
ProgramIds == {1, 2}
\* HTTP statuses the synthesis service answers with.
StatusCodes == {200, 500}
\* The feature token lists of a program record.
FeatureLists == {<<>>, <<7>>}
\* The --min-count arguments (type=int: any integer is accepted).
MinCounts == {0, 1, 2}
\* The --epochs and --count arguments.
EpochCounts == {5, 10}
Counts == {0, 2}
\* The --language arguments.
Languages == {"css", "karel"}

----------------------------------------------------------------------------
(* Values *)

\* Python's None
None == [kind |-> "None"]
\* A key that a JSON object does not have
Absent == "<absent>"
NoException == [type |-> "", args |-> <<>>]
Exception(type, a) == [type |-> type, args |-> a]

Returned(v) == [raised |-> FALSE, exc |-> NoException, value |-> v]
Raised(e) == [raised |-> TRUE, exc |-> e, value |-> None]

SeqUpTo(S, n) == UNION {[1..k -> S] : k \in 0..n}

Range(s) == {s[i] : i \in 1..Len(s)}

----------------------------------------------------------------------------
(* src/utils/client.py *)

\* One element of the "programs" list of a v2 response: a JSON object.  It
\* stays a dict after GenerateResults(**res.json()).
ProgramResult == [program : ProgramIds, graphviz : {Absent, "digraph"}, features : FeatureLists]

\* The body of a response, with the keys of its JSON object: the v2 shape of
\* GenerateResults (a list of per-program records and the grammar), the v1
\* shape (parallel lists of program texts and of their features, and the
\* grammar), or text that is no JSON.
BodiesV2 ==
    {[json |-> TRUE, keys |-> {"programs", "grammar"}, programs |-> ps,
      features |-> <<>>, grammar |-> "grammar"] :
        ps \in SeqUpTo(ProgramResult, MaxPrograms)}

BodiesV1 ==
    {[json |-> TRUE, keys |-> {"programs", "features", "grammar"}, programs |-> ps,
      features |-> fs, grammar |-> "grammar"] :
        ps \in SeqUpTo(ProgramIds, MaxPrograms),
        fs \in {f \in SeqUpTo(FeatureLists, MaxPrograms) : Len(f) > 0}}

Bodies ==
    {[json |-> FALSE, keys |-> {}, programs |-> <<>>, features |-> <<>>, grammar |-> ""]}
    \cup BodiesV2 \cup {b \in BodiesV1 : Len(b.programs) = Len(b.features)}

Responses == [status_code : StatusCodes, body : Bodies]

GenerateResults(programs, grammar) ==
    [kind |-> "GenerateResults", programs |-> programs, grammar |-> grammar]

\* GenerateResults(**res.json()): the dataclass takes the keywords programs
\* and grammar, both of them and no other.
GenerateResultsInit(json) ==
    IF json.keys # {"programs", "grammar"}
    THEN Raised(Exception("TypeError", <<"GenerateResults.__init__()", json.keys>>))
    ELSE Returned(GenerateResults(json.programs, json.grammar))

\* embeddings = ["mxbailarge"]
embeddings == <<"mxbailarge">>

\* The language blocks of the GenerateParams that generate_embeddings builds.
GenerateParams(a) ==
    [count |-> a.count, return_embeddings |-> embeddings,
     css |-> [kind |-> "CSSLanguageParameters", version |-> "exhaustivev1"],
     taco_expression |-> [kind |-> "TacoExpressionParameters", version |-> a.version],
     taco_schedule |-> [kind |-> "TacoScheduleParameters", version |-> a.version],
     karel |-> [kind |-> "KarelLanguageParameters"]]

Url(url, language, expander) == <<url, "v2", "generate", language, expander>>

\* generate with the status test left out: the body is parsed whatever the status.
generate_any_status(url, language, expander, params, resp) ==
    IF ~resp.body.json
    THEN Raised(Exception("JSONDecodeError", <<>>))
    ELSE GenerateResultsInit(resp.body)

\* generate(url, language, expander, params), resp being what requests.post
\* answered.
generate(url, language, expander, params, resp) ==
    IF resp.status_code # 200
    THEN Returned(None)
    ELSE IF ~resp.body.json
    THEN Raised(Exception("JSONDecodeError", <<>>))
    ELSE GenerateResultsInit(resp.body)

----------------------------------------------------------------------------
(* src/commands/embeddings.py *)

\* The arguments of the embedgen sub-command that the command reads.
EmbedArgs == [dimensions : 1..MaxDim, epochs : EpochCounts, count : Counts,
              min_count : MinCounts, language : Languages,
              version : {"contextfreev1"}]

TaggedDocument(words, tags) == [words |-> words, tags |-> tags]

\* for i, v in enumerate(res.programs): ... document_collections.append(doc)
RECURSIVE ExtractDocuments(_)
ExtractDocuments(programs) ==
    IF programs = <<>> THEN <<>>
    ELSE <<TaggedDocument(Head(programs).features, <<Head(programs).program>>)>>
         \o ExtractDocuments(Tail(programs))

RECURSIVE CountToken(_, _)
CountToken(words, t) ==
    IF words = <<>> THEN 0
    ELSE (IF Head(words) = t THEN 1 ELSE 0) + CountToken(Tail(words), t)

RECURSIVE Frequency(_, _)
Frequency(documents, t) ==
    IF documents = <<>> THEN 0
    ELSE CountToken(Head(documents).words, t) + Frequency(Tail(documents), t)

\* The tokens Doc2Vec keeps: those seen at least min_count times.
Vocabulary(documents, min_count) ==
    {t \in UNION {Range(documents[i].words) : i \in 1..Len(documents)} :
        Frequency(documents, t) >= min_count}

\* The vector trained for a tag: vector_size components, each a value of its own.
DocVector(tag, vector_size) == [d \in 1..vector_size |-> [tag |-> tag, x |-> d - 1]]

\* Doc2Vec without the refusal of an empty vocabulary: a model is handed back
\* whatever the documents.
Doc2Vec_any_vocabulary(documents, vector_size, min_count) ==
    Returned([kind |-> "Doc2Vec",
              docvecs |-> [tag \in UNION {Range(documents[i].tags) : i \in 1..Len(documents)}
                             |-> DocVector(tag, vector_size)]])

\* Doc2Vec(document_collections, vector_size=..., min_count=..., ...): the
\* trained model, one vector per distinct tag; training refuses an empty
\* vocabulary.
Doc2Vec(documents, vector_size, min_count) ==
    IF Vocabulary(documents, min_count) = {}
    THEN Raised(Exception("RuntimeError", <<"you must first build vocabulary before training the model">>))
    ELSE Returned([kind |-> "Doc2Vec",
                   docvecs |-> [tag \in UNION {Range(documents[i].tags) : i \in 1..Len(documents)}
                                  |-> DocVector(tag, vector_size)]])

ColumnNames(dimensions) ==
    <<<<"type">>, <<"graphviz">>>> \o [d \in 1..dimensions |-> <<"x", d - 1>>]

\* out.sort_values(["type"]): rows in ascending order of their first cell, rows
\* of one type in the order they had.
RECURSIVE InsertRow(_, _)
InsertRow(sorted, row) ==
    IF sorted = <<>> THEN <<row>>
    ELSE IF row[1] < Head(sorted)[1] THEN <<row>> \o sorted
    ELSE <<Head(sorted)>> \o InsertRow(Tail(sorted), row)

\* The rows left in the order in which they were appended.
SortValues_as_appended(rows) == rows

RECURSIVE SortValues(_)
SortValues(rows) ==
    IF rows = <<>> THEN <<>>
    ELSE InsertRow(SortValues(SubSeq(rows, 1, Len(rows) - 1)), rows[Len(rows)])

\* pd.DataFrame(out, columns=column_names), sorted and written without index.
DataFrame(out, column_names) ==
    IF \E i \in 1..Len(out) : Len(out[i]) # Len(column_names)
    THEN Raised(Exception("ValueError", <<"columns passed">>))
    ELSE Returned([columns |-> column_names, rows |-> SortValues(out)])

\* The loop of save_embedding: one row per element of programs.
RECURSIVE SaveEmbeddingRows(_, _)
SaveEmbeddingRows(m, programs) ==
    IF programs = <<>> THEN Returned(<<>>)
    ELSE LET prog == Head(programs) IN
         IF prog.graphviz = Absent
         THEN Raised(Exception("KeyError", <<"graphviz">>))
         ELSE LET rest == SaveEmbeddingRows(m, Tail(programs)) IN
              IF rest.raised THEN rest
              ELSE Returned(<<<<prog.program, prog.graphviz>> \o m.docvecs[prog.program]>>
                            \o rest.value)

\* save_embedding(output_path, model, programs, dimensions): the table written.
save_embedding(m, programs, dimensions) ==
    LET out == SaveEmbeddingRows(m, programs) IN
    IF out.raised THEN out
    ELSE DataFrame(out.value, ColumnNames(dimensions))

\* A file object: the operation that opened it and the mode it was opened in.
FileHandle(operation, mode) == [opened_by |-> operation, mode |-> mode]

\* open(path, mode): one more file object is open.
Open(hs, h) == hs \cup {h}

\* The file object is closed: by close(), by leaving a with block, or by its
\* finaliser.
Close(hs, h) == hs \ {h}

\* What becomes of a file object that nothing refers to any more and that
\* the code never closed: its finaliser closes it when the interpreter
\* collects it, at once under reference counting and at some later time, or
\* not before the exit, under another collector.
Unreferenced(hs, h) == {hs, Close(hs, h)}

\* The file that to_csv writes: pandas opens it, writes the table and closes
\* it before to_csv returns, and closes it too if the writing raises.
TableFile == FileHandle("to_csv", "w")

\* out.to_csv(output_path, index=None): the file at output_path now holds the table.
to_csv(fs, output_path, table) ==
    {f \in fs : f.path # output_path} \cup {[path |-> output_path, table |-> table]}

\* Text is a sequence of characters.  str(n) of an integer: its decimal
\* digits, after "-" if it is negative.
Digit(d) == <<"0", "1", "2", "3", "4", "5", "6", "7", "8", "9">>[d + 1]

RECURSIVE Digits(_)
Digits(n) == IF n < 10 THEN <<Digit(n)>> ELSE Digits(n \div 10) \o <<Digit(n % 10)>>

Str(n) == IF n < 0 THEN <<"-">> \o Digits(-n) ELSE Digits(n)

\* The characters of the --language arguments.
Characters(language) ==
    CASE language = "css" -> <<"c", "s", "s">>
      [] language = "karel" -> <<"k", "a", "r", "e", "l">>
      [] language = "" -> <<>>
      [] language = "1_css" -> <<"1", "_", "c", "s", "s">>
      [] language = "css_1" -> <<"c", "s", "s", "_", "1">>

ResultsEmbeddings == <<"r", "e", "s", "u", "l", "t", "s", "/">>
    \o <<"e", "m", "b", "e", "d", "d", "i", "n", "g", "s", "_">>
DotCsv == <<".", "c", "s", "v">>

\* The path with the epochs left out, as in the paths of embeddings.py:70.
Output1_without_epochs(a) ==
    ResultsEmbeddings \o Str(a.dimensions) \o <<"_">> \o Str(a.count) \o <<"_">>
    \o Characters(a.language) \o DotCsv

\* f"results/embeddings_{args.dimensions}_{args.epochs}_{args.count}_{args.language}.csv"
Output1(a) ==
    ResultsEmbeddings \o Str(a.dimensions) \o <<"_">> \o Str(a.epochs) \o <<"_">>
    \o Str(a.count) \o <<"_">> \o Characters(a.language) \o DotCsv

\* The names of the embedding systems that a program record carries vectors of.
SystemNames == {"mxbailarge", "mxbai-large"}

\* name.replace("-", "_"), as characters
SystemCharacters(name) ==
    CASE name = "mxbailarge" -> <<"m", "x", "b", "a", "i", "l", "a", "r", "g", "e">>
      [] name = "mxbai-large" -> <<"m", "x", "b", "a", "i", "_", "l", "a", "r", "g", "e">>

\* f"results/embeddings_{args.dimensions}_{args.count}_{args.language}_{name.replace("-", "_")}.csv"
Output(a, name) ==
    ResultsEmbeddings \o Str(a.dimensions) \o <<"_">> \o Str(a.count) \o <<"_">>
    \o Characters(a.language) \o <<"_">> \o SystemCharacters(name) \o DotCsv

\* prog["embeddings"]: the vector of n components that each system computed
\* for the program.
PrecomputedEmbeddings(program, n) ==
    [name \in SystemNames |-> [d \in 1..n |-> [tag |-> program, system |-> name, x |-> d - 1]]]

\* The program records of a response that carry every field, their vectors
\* of n components.
CompletePrograms(n) ==
    {[program |-> p, graphviz |-> "digraph", features |-> <<7>>,
      embeddings |-> PrecomputedEmbeddings(p, n)] : p \in ProgramIds}

\* The loop of save_embedding_new: one row per element of programs.
RECURSIVE SaveEmbeddingNewRows(_, _)
SaveEmbeddingNewRows(programs, type) ==
    IF programs = <<>> THEN Returned(<<>>)
    ELSE LET prog == Head(programs) IN
         IF prog.graphviz = Absent
         THEN Raised(Exception("KeyError", <<"graphviz">>))
         ELSE IF type \notin DOMAIN prog.embeddings
         THEN Raised(Exception("KeyError", <<type>>))
         ELSE LET rest == SaveEmbeddingNewRows(Tail(programs), type) IN
              IF rest.raised THEN rest
              ELSE Returned(<<<<prog.program, prog.graphviz>> \o prog.embeddings[type]>>
                            \o rest.value)

\* save_embedding_new(output_path, programs, type, dimensions): the table written.
save_embedding_new(programs, type, dimensions) ==
    LET out == SaveEmbeddingNewRows(programs, type) IN
    IF out.raised THEN out
    ELSE DataFrame(out.value, ColumnNames(dimensions))

Fail(e) == pc' = "failed" /\ err' = e

\* main(): parse the arguments of embedgen and call generate_embeddings(args).
EmbedMain ==
    /\ pc = "main"
    /\ \E a \in EmbedArgs : args' = a
    /\ pc' = "generate"
    /\ UNCHANGED <<err, request, response, res, document_collections, model, files>>
    /\ UNCHANGED <<neigh_vars, hist_vars, api_vars, path_vars, corr_vars, file_vars>>

\* res = generate("http://localhost:8080", args.language, "wmc", GenerateParams(...))
CallGenerate ==
    /\ pc = "generate"
    /\ \E resp \in Responses :
         LET params == GenerateParams(args)
             r == generate("http://localhost:8080", args.language, "wmc", params, resp)
         IN /\ request' = [url |-> Url("http://localhost:8080", args.language, "wmc"),
                           json |-> params]
            /\ response' = resp
            /\ IF r.raised
               THEN Fail(r.exc) /\ UNCHANGED res
               ELSE res' = r.value /\ pc' = "extract" /\ UNCHANGED err
    /\ UNCHANGED <<args, document_collections, model, files>>
    /\ UNCHANGED <<neigh_vars, hist_vars, api_vars, path_vars, corr_vars, file_vars>>

\* The loop over res.programs that builds document_collections.
Extract ==
    /\ pc = "extract"
    /\ IF res = None
       THEN Fail(Exception("AttributeError", <<"NoneType", "programs">>))
            /\ UNCHANGED document_collections
       ELSE /\ document_collections' = ExtractDocuments(res.programs)
            /\ pc' = "train"
            /\ UNCHANGED err
    /\ UNCHANGED <<args, request, response, res, model, files>>
    /\ UNCHANGED <<neigh_vars, hist_vars, api_vars, path_vars, corr_vars, file_vars>>

\* model = Doc2Vec(document_collections, vector_size=args.dimensions, ...)
Train ==
    /\ pc = "train"
    /\ LET r == Doc2Vec(document_collections, args.dimensions, args.min_count) IN
       IF r.raised
       THEN Fail(r.exc) /\ UNCHANGED model
       ELSE model' = r.value /\ pc' = "save" /\ UNCHANGED err
    /\ UNCHANGED <<args, request, response, res, document_collections, files>>
    /\ UNCHANGED <<neigh_vars, hist_vars, api_vars, path_vars, corr_vars, file_vars>>

\* save_embedding(output1, model, res.programs, args.dimensions)
SaveDoc2Vec ==
    /\ pc = "save"
    /\ LET r == save_embedding(model, res.programs, args.dimensions) IN
       IF r.raised
       THEN Fail(r.exc) /\ UNCHANGED <<files, handles>>
       ELSE /\ files' = to_csv(files, Output1(args), r.value)
            /\ handles' = Close(Open(handles, TableFile), TableFile)
            /\ pc' = "save_new"
            /\ UNCHANGED err
    /\ UNCHANGED <<args, request, response, res, document_collections, model>>
    /\ UNCHANGED <<neigh_vars, hist_vars, api_vars, path_vars, corr_vars, options, samples>>

\* for (name, _) in embeddings: an element unpacks into (name, _) only if it
\* has two items; "mxbailarge" is a string of ten characters.  (A string of
\* two would name a system by one character, which no record carries.)
SaveEmbeddingSystems ==
    /\ pc = "save_new"
    /\ IF embeddings = <<>>
       THEN pc' = "returned" /\ UNCHANGED err
       ELSE IF Len(embeddings[1]) # 2
       THEN Fail(Exception("ValueError", <<"too many values to unpack (expected 2)">>))
       ELSE Fail(Exception("KeyError", <<"embeddings">>))
    /\ UNCHANGED <<args, request, response, res, document_collections, model, files>>
    /\ UNCHANGED <<neigh_vars, hist_vars, api_vars, path_vars, corr_vars, file_vars>>

EmbedInit ==
    /\ pc = "main"
    /\ err = NoException
    /\ args = [dimensions |-> 1, epochs |-> 10, count |-> 2, min_count |-> 1,
               language |-> "css", version |-> "contextfreev1"]
    /\ request = [url |-> <<>>, json |-> None]
    /\ response = [status_code |-> 0,
                   body |-> [json |-> FALSE, keys |-> {}, programs |-> <<>>, features |-> <<>>, grammar |-> ""]]
    /\ res = None
    /\ document_collections = <<>>
    /\ model = None
    /\ files = {}
    /\ data = <<>>
    /\ neighind = <<>>
    /\ rendered = <<>>
    /\ histogram_data = <<>>
    /\ centers = <<>>
    /\ borders = <<>>
    /\ bars = <<>>
    /\ body = None
    /\ reply = None
    /\ trained = <<>>
    /\ runs = <<>>
    /\ scores = None
    /\ analyses = <<>>
    /\ handles = {}
    /\ options = None
    /\ samples = 0

EmbedNext ==
    \/ EmbedMain
    \/ CallGenerate
    \/ Extract
    \/ Train
    \/ SaveDoc2Vec
    \/ SaveEmbeddingSystems

SpecEmbed == EmbedInit /\ [][EmbedNext]_vars

\* The body of the loop over the embedding systems, for one name and a corpus
\* whose records carry every field, their vectors of n components:
\* save_embedding_new(output, res.programs, name, args.dimensions).
CallSaveEmbeddingNew ==
    /\ pc = "main"
    /\ \E a \in EmbedArgs, name \in SystemNames, n \in 1..MaxDim :
         \E programs \in SeqUpTo(CompletePrograms(n), MaxPrograms) :
            LET r == save_embedding_new(programs, name, a.dimensions) IN
            /\ args' = a
            /\ res' = GenerateResults(programs, "grammar")
            /\ IF r.raised
               THEN Fail(r.exc) /\ UNCHANGED <<files, handles>>
               ELSE /\ files' = to_csv(files, Output(a, name), r.value)
                    /\ handles' = Close(Open(handles, TableFile), TableFile)
                    /\ pc' = "returned"
                    /\ UNCHANGED err
    /\ UNCHANGED <<request, response, document_collections, model>>
    /\ UNCHANGED <<neigh_vars, hist_vars, api_vars, path_vars, corr_vars, options, samples>>

\* The tables that embeddings.py writes: those of a run of the embedgen
\* command, or that of a call of save_embedding_new.
TablesNext ==
    \/ EmbedNext
    \/ CallSaveEmbeddingNew

SpecTables == EmbedInit /\ [][TablesNext]_vars

----------------------------------------------------------------------------
(* src/commands/nearest.py *)

\* The rows of the csv files that --input names: type, graphviz and the
\* vector x_0, x_1 (coordinates in tenths).  Two rows share a type, two
\* share a vector.
TableRows ==
    {[type |-> 1, graphviz |-> "g1", x |-> <<0, 10>>],
     [type |-> 2, graphviz |-> "g2", x |-> <<0, 11>>],
     [type |-> 3, graphviz |-> "g3", x |-> <<50, 50>>],
     [type |-> 1, graphviz |-> "g4", x |-> <<0, 11>>]}

\* The integers of --indices: one or two of them.
IndexValues == -2..MaxRows
IndexLists == [1..1 -> IndexValues] \cup [1..2 -> IndexValues]

\* The arguments of the neigh sub-command.
NeighArgs == [indices : IndexLists, count : -1..MaxRows]

\* src.utils.strlen.strlen, applied to the type column: a value that the type
\* determines.
strlen(type) == [strlen |-> type]

\* pd.read_csv(args.input) and data["plen"] = data["type"].apply(strlen): the
\* rows get the labels 0, 1, ... and the column plen.
ReadCsv(table) ==
    [i \in 1..Len(table) |->
        [label |-> i - 1, type |-> table[i].type, graphviz |-> table[i].graphviz,
         x |-> table[i].x, plen |-> strlen(table[i].type)]]

\* Two rows are duplicates when all their columns are equal.
SameColumns(r, s) ==
    /\ r.type = s.type
    /\ r.graphviz = s.graphviz
    /\ r.x = s.x
    /\ r.plen = s.plen

\* data.drop_duplicates(): the first of each group of duplicate rows stays,
\* with its label.
RECURSIVE DropDuplicates(_)
DropDuplicates(frame) ==
    IF frame = <<>> THEN <<>>
    ELSE LET front == DropDuplicates(SubSeq(frame, 1, Len(frame) - 1))
             last == frame[Len(frame)]
         IN IF \E i \in 1..Len(front) : SameColumns(front[i], last)
            THEN front
            ELSE Append(front, last)

\* The position in 0..n-1 that iloc gives an integer of -n..n-1.
Position(i, n) == IF i < 0 THEN n + i ELSE i

\* data.iloc[indices, ...]: the positions selected, or IndexError.
ILoc(frame, indices) ==
    IF \E i \in 1..Len(indices) :
          indices[i] < -Len(frame) \/ indices[i] >= Len(frame)
    THEN Raised(Exception("IndexError", <<"positional indexers are out-of-bounds">>))
    ELSE Returned([i \in 1..Len(indices) |-> Position(indices[i], Len(frame))])

\* The square of the euclidean distance of two vectors (the distances are
\* compared, never added).
RECURSIVE Distance2(_, _)
Distance2(u, v) ==
    IF u = <<>> THEN 0
    ELSE (Head(u) - Head(v)) * (Head(u) - Head(v)) + Distance2(Tail(u), Tail(v))

\* The positions among cands nearest to the row at position q.
Nearest(frame, q, cands) ==
    {c \in cands : \A d \in cands :
        Distance2(frame[q + 1].x, frame[c + 1].x) <= Distance2(frame[q + 1].x, frame[d + 1].x)}

\* The lists of n positions that a query for the row at position q may
\* return: ascending distance, rows at one distance in any order.
RECURSIVE KNeighbors(_, _, _, _)
KNeighbors(frame, q, cands, n) ==
    IF n = 0 THEN {<<>>}
    ELSE UNION {{<<c>> \o s : s \in KNeighbors(frame, q, cands \ {c}, n - 1)} :
                  c \in Nearest(frame, q, cands)}

\* NearestNeighbors(n_neighbors=...).fit(X): refuses n_neighbors < 1 and a
\* table without rows.
Fit(frame, n_neighbors) ==
    IF n_neighbors <= 0
    THEN Raised(Exception("ValueError", <<"n_neighbors">>))
    ELSE IF Len(frame) = 0
    THEN Raised(Exception("ValueError", <<"Found array with 0 sample(s)">>))
    ELSE Returned(n_neighbors)

\* One list of n positions per query row, each as KNeighbors allows.
RECURSIVE KNeighborsAll(_, _, _)
KNeighborsAll(frame, query, n) ==
    IF query = <<>> THEN {<<>>}
    ELSE {<<h>> \o t : h \in KNeighbors(frame, Head(query), 0..(Len(frame) - 1), n),
                       t \in KNeighborsAll(frame, Tail(query), n)}

\* neigh.kneighbors(query): the set of results (one list of positions per
\* query row) it may return, or ValueError for more neighbours than rows.
KNeighborsQuery(frame, query, n_neighbors) ==
    IF n_neighbors > Len(frame)
    THEN {Raised(Exception("ValueError", <<"Expected n_neighbors <= n_samples_fit">>))}
    ELSE {Returned(r) : r \in KNeighborsAll(frame, query, n_neighbors)}

\* graphs[indices[i]]: the graphviz cells of the selected rows whose label is
\* the integer.
GraphsByLabel(frame, query, label) ==
    {i \in 1..Len(query) : frame[query[i] + 1].label = label}

\* The body of the loop for the i-th query, given what the loop has rendered
\* so far: the root graph, looked up by label, then the neighbours 1..count.
RenderQuery(frame, indices, query, nind, count, i, sofar) ==
    LET hits == GraphsByLabel(frame, query, indices[i]) IN
    IF hits = {}
    THEN [images |-> sofar, exc |-> Exception("KeyError", <<indices[i]>>)]
    ELSE IF Cardinality(hits) > 1
    THEN [images |-> sofar, exc |-> Exception("AttributeError", <<"Series">>)]
    ELSE LET root == [row |-> i - 1, col |-> 0,
                      source |-> frame[query[CHOOSE h \in hits : TRUE] + 1].graphviz]
         IN IF Len(indices) = 1 /\ count + 1 = 1
            THEN [images |-> Append(sofar, root),
                  exc |-> Exception("TypeError", <<"Axes object is not subscriptable">>)]
            ELSE IF Len(indices) = 1 \/ count + 1 = 1
            THEN [images |-> Append(sofar, root),
                  exc |-> Exception("IndexError", <<"too many indices for array">>)]
            ELSE [images |-> Append(sofar, root)
                             \o [j \in 1..count |->
                                   [row |-> i - 1, col |-> j,
                                    source |-> frame[nind[i][j + 1] + 1].graphviz]],
                  exc |-> NoException]

\* for i, prog in enumerate(programs): ... up to the first exception.
RECURSIVE RenderAll(_, _, _, _, _, _)
RenderAll(frame, indices, query, nind, count, upto) ==
    IF upto = 0 THEN [images |-> <<>>, exc |-> NoException]
    ELSE LET before == RenderAll(frame, indices, query, nind, count, upto - 1) IN
         IF before.exc # NoException THEN before
         ELSE RenderQuery(frame, indices, query, nind, count, upto, before.images)

\* main(): parse the arguments of neigh and call nearest_neighbors(args).
NeighMain ==
    /\ pc = "main"
    /\ \E a \in NeighArgs : args' = a
    /\ pc' = "load"
    /\ UNCHANGED <<err, request, response, res, document_collections, model, files>>
    /\ UNCHANGED <<neigh_vars, hist_vars, api_vars, path_vars, corr_vars, file_vars>>

\* data = pd.read_csv(args.input, ...); data["plen"] = ...; data.drop_duplicates()
LoadData ==
    /\ pc = "load"
    /\ \E table \in SeqUpTo(TableRows, MaxRows) :
          data' = DropDuplicates(ReadCsv(table))
    /\ pc' = "fit"
    /\ UNCHANGED <<err, neighind, rendered, embed_vars, hist_vars, api_vars, path_vars, corr_vars, file_vars>>

\* neigh.fit(...), query = data.iloc[indices, 2:-1] and
\* (dist, neighind) = neigh.kneighbors(query)
FitAndQuery ==
    /\ pc = "fit"
    /\ LET fitted == Fit(data, args.count + 1)
           query == ILoc(data, args.indices)
       IN IF fitted.raised THEN Fail(fitted.exc) /\ UNCHANGED neighind
          ELSE IF query.raised THEN Fail(query.exc) /\ UNCHANGED neighind
          ELSE \E r \in KNeighborsQuery(data, query.value, args.count + 1) :
                  IF r.raised THEN Fail(r.exc) /\ UNCHANGED neighind
                  ELSE neighind' = r.value /\ pc' = "render" /\ UNCHANGED err
    /\ UNCHANGED <<data, rendered, embed_vars, hist_vars, api_vars, path_vars, corr_vars, file_vars>>

\* The loop that renders a root graph and its neighbours per query, then
\* plt.savefig and the two image commands.
Render ==
    /\ pc = "render"
    /\ LET r == RenderAll(data, args.indices, ILoc(data, args.indices).value,
                          neighind, args.count, Len(args.indices))
       IN /\ rendered' = r.images
          /\ IF r.exc # NoException
             THEN Fail(r.exc)
             ELSE pc' = "returned" /\ UNCHANGED err
    /\ UNCHANGED <<data, neighind, embed_vars, hist_vars, api_vars, path_vars, corr_vars, file_vars>>

NeighInit ==
    /\ pc = "main"
    /\ err = NoException
    /\ args = [indices |-> <<0>>, count |-> 10]
    /\ request = [url |-> <<>>, json |-> None]
    /\ response = [status_code |-> 0,
                   body |-> [json |-> FALSE, keys |-> {}, programs |-> <<>>, features |-> <<>>, grammar |-> ""]]
    /\ res = None
    /\ document_collections = <<>>
    /\ model = None
    /\ files = {}
    /\ data = <<>>
    /\ neighind = <<>>
    /\ rendered = <<>>
    /\ histogram_data = <<>>
    /\ centers = <<>>
    /\ borders = <<>>
    /\ bars = <<>>
    /\ body = None
    /\ reply = None
    /\ trained = <<>>
    /\ runs = <<>>
    /\ scores = None
    /\ analyses = <<>>
    /\ handles = {}
    /\ options = None
    /\ samples = 0

NeighNext ==
    \/ NeighMain
    \/ LoadData
    \/ FitAndQuery
    \/ Render

SpecNeigh == NeighInit /\ [][NeighNext]_vars

----------------------------------------------------------------------------
(* src/commands/experiment_processing.py *)

\* Numbers are fractions num/den in lowest terms, den > 0.
RECURSIVE GCD(_, _)
GCD(a, b) == IF b = 0 THEN a ELSE GCD(b, a % b)

Abs(a) == IF a < 0 THEN -a ELSE a

Frac(n, d) ==
    LET g == GCD(Abs(n), Abs(d))
        sign == IF d < 0 THEN -1 ELSE 1
    IN [num |-> sign * (n \div g), den |-> sign * (d \div g)]

FromInt(n) == [num |-> n, den |-> 1]
FracAdd(a, b) == Frac(a.num * b.den + b.num * a.den, a.den * b.den)
FracSub(a, b) == Frac(a.num * b.den - b.num * a.den, a.den * b.den)
FracDiv(a, k) == Frac(a.num, a.den * k)
FracLess(a, b) == a.num * b.den < b.num * a.den

\* np.diff(values): the differences of adjacent elements.
Diff(values) == [i \in 1..(Len(values) - 1) |-> FracSub(values[i + 1], values[i])]

RECURSIVE FracSum(_)
FracSum(values) ==
    IF values = <<>> THEN FromInt(0) ELSE FracAdd(Head(values), FracSum(Tail(values)))

\* np.mean(values), of a list that is not empty
Mean(values) == FracDiv(FracSum(values), Len(values))

\* compute_bucket_borders with the two outer borders half the first gap away
\* from the outer centers
compute_bucket_borders_first_gap(cs) ==
    IF Len(cs) < 2 THEN cs
    ELSE LET widths == Diff(cs)
             first_width == widths[1]
         IN <<FracSub(cs[1], FracDiv(first_width, 2))>>
            \o [i \in 1..(Len(cs) - 1) |-> FracDiv(FracAdd(cs[i], cs[i + 1]), 2)]
            \o <<FracAdd(cs[Len(cs)], FracDiv(first_width, 2))>>

\* compute_bucket_borders with each inner border at the center to its left
\* instead of the midpoint of the pair
compute_bucket_borders_left_centers(cs) ==
    IF Len(cs) < 2 THEN cs
    ELSE LET widths == Diff(cs)
             avg_width == Mean(widths)
         IN <<FracSub(cs[1], FracDiv(avg_width, 2))>>
            \o [i \in 1..(Len(cs) - 1) |-> cs[i]]
            \o <<FracAdd(cs[Len(cs)], FracDiv(avg_width, 2))>>

\* compute_bucket_borders(centers)
compute_bucket_borders(cs) ==
    IF Len(cs) < 2 THEN cs
    ELSE LET widths == Diff(cs)
             avg_width == Mean(widths)
         IN <<FracSub(cs[1], FracDiv(avg_width, 2))>>
            \o [i \in 1..(Len(cs) - 1) |-> FracDiv(FracAdd(cs[i], cs[i + 1]), 2)]
            \o <<FracAdd(cs[Len(cs)], FracDiv(avg_width, 2))>>

\* The items [center, count] of a histogram of the experiment file.
HistogramItems == {<<c, 3>> : c \in 0..MaxCenter}

\* plt.bar(centers, counts, width=np.diff(borders)): the arguments are
\* broadcast to one length; a list of one element fits any length, and
\* against an empty list gives no bar.
Bars(cs, counts, widths) ==
    IF Len(widths) = Len(cs)
    THEN Returned([i \in 1..Len(cs) |-> [x |-> cs[i], height |-> counts[i], width |-> widths[i]]])
    ELSE IF Len(widths) = 0 /\ Len(cs) = 1
    THEN Returned(<<>>)
    ELSE IF Len(widths) = 1
    THEN Returned([i \in 1..Len(cs) |-> [x |-> cs[i], height |-> counts[i], width |-> widths[1]]])
    ELSE IF Len(cs) = 1
    THEN Returned([i \in 1..Len(widths) |-> [x |-> cs[1], height |-> counts[1], width |-> widths[i]]])
    ELSE Raised(Exception("ValueError", <<"shape mismatch">>))

\* f = open(args.input, "r"): the file object of process_experiment.
InputFile == FileHandle("process_experiment", "r")

\* f = open(args.input, "r"); data = json.load(f): the histogram of
\* data["ast_distribution"].  f stays open: nothing closes it.
ReadExperiment ==
    /\ pc = "main"
    /\ \E h \in SeqUpTo(HistogramItems, MaxCenters) : histogram_data' = h
    /\ handles' = Open(handles, InputFile)
    /\ pc' = "plot"
    /\ UNCHANGED <<err, centers, borders, bars, embed_vars, neigh_vars, api_vars, path_vars, corr_vars, options, samples>>

\* plot_histogram("AST", args.output, ast_data["histogram"], ""), and the
\* end of process_experiment.  When it returns, nothing refers to f any more;
\* when it raises, the traceback of the exception holds the frame and with it f.
PlotHistogram ==
    /\ pc = "plot"
    /\ LET cs == [i \in 1..Len(histogram_data) |-> FromInt(histogram_data[i][1])]
           counts == [i \in 1..Len(histogram_data) |-> histogram_data[i][2]]
           bs == compute_bucket_borders(cs)
           drawn == Bars(cs, counts, Diff(bs))
       IN /\ centers' = cs
          /\ borders' = bs
          /\ IF drawn.raised
             THEN Fail(drawn.exc) /\ UNCHANGED <<bars, handles>>
             ELSE /\ bars' = drawn.value
                  /\ handles' \in Unreferenced(handles, InputFile)
                  /\ pc' = "returned"
                  /\ UNCHANGED err
    /\ UNCHANGED <<histogram_data, embed_vars, neigh_vars, api_vars, path_vars, corr_vars, options, samples>>

HistInit ==
    /\ pc = "main"
    /\ err = NoException
    /\ args = [input |-> "experiment.json"]
    /\ request = [url |-> <<>>, json |-> None]
    /\ response = [status_code |-> 0,
                   body |-> [json |-> FALSE, keys |-> {}, programs |-> <<>>, features |-> <<>>, grammar |-> ""]]
    /\ res = None
    /\ document_collections = <<>>
    /\ model = None
    /\ files = {}
    /\ data = <<>>
    /\ neighind = <<>>
    /\ rendered = <<>>
    /\ histogram_data = <<>>
    /\ centers = <<>>
    /\ borders = <<>>
    /\ bars = <<>>
    /\ body = None
    /\ reply = None
    /\ trained = <<>>
    /\ runs = <<>>
    /\ scores = None
    /\ analyses = <<>>
    /\ handles = {}
    /\ options = None
    /\ samples = 0

HistNext ==
    \/ ReadExperiment
    \/ PlotHistogram

SpecHist == HistInit /\ [][HistNext]_vars

----------------------------------------------------------------------------
(* src/services/doc2vec-api/main.py *)

\* The JSON values of a request body, as request.get_json() hands them over.
\* The items of a dict are its [key, value] pairs in insertion order, the keys
\* distinct.
JNull == [kind |-> "null"]
JNumber(n) == [kind |-> "number", n |-> n]
JString(text) == [kind |-> "string", text |-> text]
JList(items) == [kind |-> "list", items |-> items]
JDict(items) == [kind |-> "dict", items |-> items]
\* A body that is no JSON text: get_json() raises BadRequest.
NotJson == [kind |-> "invalid"]

Item(key, value) == [key |-> key, value |-> value]

\* The values a document id is mapped to: lists of strings, a list with a
\* number in it, and values that are no list.
WordsValues ==
    {JList(<<>>), JList(<<JString("w")>>), JList(<<JString("w"), JNumber(1)>>),
     JString("w"), JNull}

DocumentIds == {"a", "b", "c"}

DistinctKeys(items) ==
    \A i, j \in 1..Len(items) : i # j => items[i].key # items[j].key

\* The dictionaries of up to MaxDocs documents.
DocumentDicts ==
    {JDict(items) : items \in {d \in SeqUpTo([key : DocumentIds, value : WordsValues], MaxDocs) :
                                  DistinctKeys(d)}}

\* The values of the "documents" field.
DocumentsValues == DocumentDicts \cup {JList(<<>>), JString("documents"), JNull}

\* The values of the "config" field.
ConfigValues ==
    {JDict(<<>>), JDict(<<Item("vector_size", JNumber(2))>>),
     JDict(<<Item("vector_size", JNumber(0))>>), JDict(<<Item("bogus", JNumber(1))>>)}

\* The request bodies: objects with or without "documents" and "config",
\* other JSON values, and text that is no JSON.
Payloads ==
    {JDict(d \o c) :
        d \in {<<>>} \cup {<<Item("documents", v)>> : v \in DocumentsValues},
        c \in {<<>>} \cup {<<Item("config", v)>> : v \in ConfigValues}}
    \cup {JNull, JNumber(0), JNumber(5), JString(""), JString("documents"),
          JString("abc"), JList(<<>>), JList(<<JString("documents")>>), NotJson}

\* not v
Falsy(v) ==
    \/ v.kind = "null"
    \/ v.kind = "number" /\ v.n = 0
    \/ v.kind = "string" /\ v.text = ""
    \/ v.kind \in {"list", "dict"} /\ v.items = <<>>

\* key in v, for a dict (its keys), a list (its elements) or a string (its
\* substrings: of the strings above only "documents" has the substring
\* "documents").
Contains(v, key) ==
    IF v.kind = "dict" THEN \E i \in 1..Len(v.items) : v.items[i].key = key
    ELSE IF v.kind = "list"
    THEN \E i \in 1..Len(v.items) : v.items[i].kind = "string" /\ v.items[i].text = key
    ELSE v.kind = "string" /\ v.text = key

\* d[key] of a dict that has the key
Get(d, key) == d.items[CHOOSE i \in 1..Len(d.items) : d.items[i].key = key].value

\* jsonify({"error": ...}), status and jsonify({"embeddings": ...}), 200
ErrorReply(message, status) == [status |-> status, error |-> message]
EmbeddingsReply(e) == [status |-> 200, embeddings |-> e]

\* class Doc2VecConfig: the defaults of its fields.
Doc2VecConfig ==
    [vector_size |-> 100, min_count |-> 2, epochs |-> 10, alpha |-> "0.025",
     min_alpha |-> "0.00025", window |-> 0, sample |-> "1e-5", negative |-> 5]

\* dataclass.__dict__: the attributes set on the function dataclasses.dataclass
\* (none), which is where from_dict looks for "__dataclass_fields__".
DataclassAttributes == {}

\* Doc2VecConfig.from_dict(config_dict)
from_dict(config_dict) ==
    IF "__dataclass_fields__" \notin DataclassAttributes
    THEN Raised(Exception("KeyError", <<"__dataclass_fields__">>))
    ELSE IF config_dict.kind # "dict"
    THEN Raised(Exception("AttributeError", <<config_dict.kind, "items">>))
    ELSE Returned([f \in DOMAIN Doc2VecConfig |->
                     IF ~Contains(config_dict, f) THEN Doc2VecConfig[f]
                     ELSE IF Get(config_dict, f).kind = "number" THEN Get(config_dict, f).n
                     ELSE Get(config_dict, f)])

\* tagged_docs of train_doc2vec
TaggedDocs(documents) ==
    [i \in 1..Len(documents.items) |->
        TaggedDocument([j \in 1..Len(documents.items[i].value.items) |->
                           documents.items[i].value.items[j].text],
                       <<documents.items[i].key>>)]

\* train_doc2vec(documents, config): min_count is not passed on, so the
\* library's own min_count of 5 applies.
train_doc2vec(documents, config) ==
    LET m == Doc2Vec(TaggedDocs(documents), config.vector_size, 5) IN
    IF m.raised THEN m
    ELSE Returned([doc_id \in {documents.items[i].key : i \in 1..Len(documents.items)} |->
                      m.value.docvecs[doc_id]])

\* The loop that validates the documents: the answer of the first document
\* that is refused, None if there is none.
RECURSIVE ValidateDocuments(_)
ValidateDocuments(items) ==
    IF items = <<>> THEN None
    ELSE LET doc_id == Head(items).key
             words == Head(items).value
         IN IF words.kind # "list"
            THEN ErrorReply(<<"Document", doc_id, "must have a list of words">>, 400)
            ELSE IF \E i \in 1..Len(words.items) : words.items[i].kind # "string"
            THEN ErrorReply(<<"Document", doc_id, "contains non-string words">>, 400)
            ELSE ValidateDocuments(Tail(items))

\* What the handler hands back: its answer and the corpora it trained on.
Handled(r, t) == [reply |-> r, trained |-> t]

\* except Exception as e: return jsonify({"error": str(e)}), 500
Caught(e, t) == Handled(ErrorReply(<<e.type, e.args>>, 500), t)

\* The part of embed_documents after the validation of the documents.
TrainAndAnswer(payload, documents) ==
    LET config_dict == IF Contains(payload, "config") THEN Get(payload, "config") ELSE JDict(<<>>)
        config == from_dict(config_dict)
    IN IF config.raised THEN Caught(config.exc, <<>>)
       ELSE LET e == train_doc2vec(documents, config.value) IN
            IF e.raised THEN Caught(e.exc, <<TaggedDocs(documents)>>)
            ELSE Handled(EmbeddingsReply(e.value), <<TaggedDocs(documents)>>)

\* embed_documents(), payload being the body that request.get_json() reads
embed_documents(payload) ==
    IF payload.kind = "invalid" THEN Caught(Exception("BadRequest", <<>>), <<>>)
    ELSE IF Falsy(payload)
    THEN Handled(ErrorReply(<<"Missing documents field in request">>, 400), <<>>)
    ELSE IF payload.kind = "number"
    THEN Caught(Exception("TypeError", <<"argument of type 'int' is not iterable">>), <<>>)
    ELSE IF ~Contains(payload, "documents")
    THEN Handled(ErrorReply(<<"Missing documents field in request">>, 400), <<>>)
    ELSE IF payload.kind # "dict"
    THEN Caught(Exception("TypeError", <<"indices must be integers">>), <<>>)
    ELSE LET documents == Get(payload, "documents") IN
         IF documents.kind # "dict"
         THEN Handled(ErrorReply(<<"documents must be a dictionary">>, 400), <<>>)
         ELSE IF Falsy(documents)
         THEN Handled(ErrorReply(<<"No documents provided">>, 400), <<>>)
         ELSE IF ValidateDocuments(documents.items) # None
         THEN Handled(ValidateDocuments(documents.items), <<>>)
         ELSE TrainAndAnswer(payload, documents)

\* A client posts a request to /embed.
PostEmbed ==
    /\ pc = "listening"
    /\ \E b \in Payloads : body' = b
    /\ reply' = None
    /\ trained' = <<>>
    /\ pc' = "handling"
    /\ UNCHANGED <<err, embed_vars, neigh_vars, hist_vars, path_vars, corr_vars, file_vars>>

\* @app.route("/embed", methods=["POST"]): embed_documents answers the request.
\* The handler keeps nothing from one request to the next, so a behaviour
\* follows one request.
EmbedDocuments ==
    /\ pc = "handling"
    /\ reply' = embed_documents(body).reply
    /\ trained' = embed_documents(body).trained
    /\ pc' = "answered"
    /\ UNCHANGED <<err, body, embed_vars, neigh_vars, hist_vars, path_vars, corr_vars, file_vars>>

\* app.run(host="0.0.0.0", port=8080): the service waits for requests.
ApiInit ==
    /\ pc = "listening"
    /\ err = NoException
    /\ args = [host |-> "0.0.0.0", port |-> 8080]
    /\ request = [url |-> <<>>, json |-> None]
    /\ response = [status_code |-> 0,
                   body |-> [json |-> FALSE, keys |-> {}, programs |-> <<>>, features |-> <<>>, grammar |-> ""]]
    /\ res = None
    /\ document_collections = <<>>
    /\ model = None
    /\ files = {}
    /\ data = <<>>
    /\ neighind = <<>>
    /\ rendered = <<>>
    /\ histogram_data = <<>>
    /\ centers = <<>>
    /\ borders = <<>>
    /\ bars = <<>>
    /\ body = None
    /\ reply = None
    /\ trained = <<>>
    /\ runs = <<>>
    /\ scores = None
    /\ analyses = <<>>
    /\ handles = {}
    /\ options = None
    /\ samples = 0

ApiNext ==
    \/ PostEmbed
    \/ EmbedDocuments

SpecApi == ApiInit /\ [][ApiNext]_vars

\* The two embedding trainers of the repository, each on its own: a run of
\* the embedgen command, or the service answering requests.
TrainersInit == EmbedInit \/ ApiInit

TrainersNext ==
    \/ EmbedNext
    \/ ApiNext

SpecTrainers == TrainersInit /\ [][TrainersNext]_vars

----------------------------------------------------------------------------
(* src/commands/similarity_correlation.py *)

\* The score values of the table, and its tables: the column of the AST
\* scores and one column per embedding system, all of one length (at least
\* the two pairs that a correlation needs).
ScoreValues == {0, 1}

ScoreColumns(n) == [1..n -> ScoreValues]

ScoreTables ==
    UNION {[ast : ScoreColumns(n), systems : SeqUpTo(ScoreColumns(n), MaxSystems)] :
              n \in 2..MaxScores}

\* What scipy.stats computes is kept as the term that names the function, the
\* two sequences it was given and, for a p-value, the alternative hypothesis.
Statistic(fn, x, y) == [fn |-> fn, x |-> x, y |-> y]
PValue(fn, x, y, alternative) == [fn |-> fn, x |-> x, y |-> y, alternative |-> alternative]
Squared(v) == [fn |-> "**2", of |-> v]

pearsonr(x, y, alternative) ==
    [statistic |-> Statistic("pearsonr.statistic", x, y),
     pvalue |-> PValue("pearsonr.pvalue", x, y, alternative)]

spearmanr(x, y, alternative) ==
    [statistic |-> Statistic("spearmanr.statistic", x, y),
     pvalue |-> PValue("spearmanr.pvalue", x, y, alternative)]

linregress(x, y, alternative) ==
    [slope |-> Statistic("linregress.slope", x, y),
     intercept |-> Statistic("linregress.intercept", x, y),
     rvalue |-> Statistic("linregress.rvalue", x, y),
     pvalue |-> PValue("linregress.pvalue", x, y, alternative),
     stderr |-> Statistic("linregress.stderr", x, y)]

\* correlation_analysis with the regression left at the library's default
\* alternative
correlation_analysis_default_regression(x, y) ==
    LET pearson == pearsonr(x, y, "greater")
        spearman == spearmanr(x, y, "greater")
        regression == linregress(x, y, "two-sided")
    IN [pearson_r |-> pearson.statistic, pearson_p |-> pearson.pvalue,
        spearman_r |-> spearman.statistic, spearman_p |-> spearman.pvalue,
        regression_r |-> regression.rvalue, regression_p |-> regression.pvalue,
        regression_rsq |-> Squared(regression.rvalue)]

\* correlation_analysis(x, y): the results dictionary
correlation_analysis(x, y) ==
    LET pearson == pearsonr(x, y, "greater")
        spearman == spearmanr(x, y, "greater")
        regression == linregress(x, y, "greater")
    IN [pearson_r |-> pearson.statistic, pearson_p |-> pearson.pvalue,
        spearman_r |-> spearman.statistic, spearman_p |-> spearman.pvalue,
        regression_r |-> regression.rvalue, regression_p |-> regression.pvalue,
        regression_rsq |-> Squared(regression.rvalue)]

\* column.iloc[0:2500]
First2500(column) == SubSeq(column, 1, IF Len(column) < 2500 THEN Len(column) ELSE 2500)

\* num_embeddings = data.shape[1] - 2
NumEmbeddings(table) == Len(table.systems)

\* The arguments of the command that similarity_correlation reads.
CorrArgs == [lang : Languages, experiment_number : {1}]

\* data = pd.read_csv(file); ast_scores = data.iloc[0:2500, 1]
ReadScores ==
    /\ pc = "main"
    /\ \E a \in CorrArgs : args' = a
    /\ \E table \in ScoreTables :
         /\ scores' = table
         /\ pc' = IF NumEmbeddings(table) = 0 THEN "returned" ELSE "loop"
    /\ UNCHANGED <<err, analyses, request, response, res, document_collections, model, files>>
    /\ UNCHANGED <<neigh_vars, hist_vars, api_vars, path_vars, file_vars>>

\* One pass of the loop over the embedding systems: the analysis of column i
\* against the AST column, printed, and the scatter plot saved under a title
\* that quotes pearson_p and pearson_r.
Analyse ==
    /\ pc = "loop"
    /\ LET i == Len(analyses) + 1
           embedding_system == <<"system", i>>
           analysis == correlation_analysis(scores.systems[i], scores.ast)
       IN /\ analyses' =
                Append(analyses,
                       [embedding_system |-> embedding_system,
                        x |-> scores.systems[i], y |-> scores.ast,
                        analysis |-> analysis,
                        figure |-> [x |-> First2500(scores.systems[i]),
                                    y |-> First2500(scores.ast),
                                    title |-> <<args.lang, embedding_system,
                                                analysis.pearson_p, analysis.pearson_r>>]])
          /\ pc' = IF i = NumEmbeddings(scores) THEN "returned" ELSE "loop"
    /\ UNCHANGED <<err, scores, embed_vars, neigh_vars, hist_vars, api_vars, path_vars, file_vars>>

CorrInit ==
    /\ pc = "main"
    /\ err = NoException
    /\ args = [lang |-> "css", experiment_number |-> 1]
    /\ request = [url |-> <<>>, json |-> None]
    /\ response = [status_code |-> 0,
                   body |-> [json |-> FALSE, keys |-> {}, programs |-> <<>>, features |-> <<>>, grammar |-> ""]]
    /\ res = None
    /\ document_collections = <<>>
    /\ model = None
    /\ files = {}
    /\ data = <<>>
    /\ neighind = <<>>
    /\ rendered = <<>>
    /\ histogram_data = <<>>
    /\ centers = <<>>
    /\ borders = <<>>
    /\ bars = <<>>
    /\ body = None
    /\ reply = None
    /\ trained = <<>>
    /\ runs = <<>>
    /\ scores = None
    /\ analyses = <<>>
    /\ handles = {}
    /\ options = None
    /\ samples = 0

CorrNext ==
    \/ ReadScores
    \/ Analyse

SpecCorr == CorrInit /\ [][CorrNext]_vars

----------------------------------------------------------------------------
(* The output path of generate_embeddings over several runs *)

\* The --language arguments of the runs compared: a name may hold digits and
\* the separator of the path, and may be empty (the default).
PathLanguages == Languages \cup {"", "1_css", "css_1"}

\* The --dimensions, --epochs and --count arguments of the runs compared: of
\* one digit and of two.
PathNumbers == {1, 11}

PathArgs == [dimensions : PathNumbers, epochs : PathNumbers, count : PathNumbers,
             language : PathLanguages]

\* A run of embedgen with the arguments a: output1 is the path its table is
\* written to.
RunEmbedgen ==
    /\ pc = "main"
    /\ Len(runs) < MaxRuns
    /\ \E a \in PathArgs : runs' = Append(runs, [args |-> a, output1 |-> Output1(a)])
    /\ UNCHANGED <<pc, err, embed_vars, neigh_vars, hist_vars, api_vars, corr_vars, file_vars>>

PathNext == RunEmbedgen

SpecPaths == EmbedInit /\ [][PathNext]_vars


----------------------------------------------------------------------------
(* src/commands/viz2.py: data_viz2 *)

\* The arguments of data_viz2.
VizArgs == [lang : Languages, experiment_number : PathNumbers, output : {"images"}]

\* What results/{lang}/{exp_number}/options.json holds: nothing (there is no
\* such file), a text that is no JSON document, or a JSON object.
OptionsFiles == {Absent, "{", "{}"}

\* The numbers of rows of the merged table after drop_duplicates.
SampleCounts == {0, 40}

\* open(f"results/{lang}/{exp_number}/options.json", "r"): the file object
\* that data_viz2 hands to json.load and gives no name.
OptionsFile == FileHandle("data_viz2", "r")

\* json.load(fp): the document of a text.
json_load(text) ==
    IF text = "{}" THEN Returned([kind |-> "dict", items |-> <<>>])
    ELSE Raised(Exception("JSONDecodeError", <<"Expecting property name enclosed in double quotes">>))

\* TSNE(2).fit_transform(X) of a table of n rows: a table without rows is
\* refused.
TSNE(n) ==
    IF n = 0 THEN Raised(Exception("ValueError", <<"Found array with 0 sample(s)">>))
    ELSE Returned(n)

\* data_viz2(args): lang and exp_number, and the paths of the two tables.
VizMain ==
    /\ pc = "main"
    /\ \E a \in VizArgs : args' = a
    /\ pc' = "options"
    /\ UNCHANGED <<err, request, response, res, document_collections, model, files>>
    /\ UNCHANGED <<neigh_vars, hist_vars, api_vars, path_vars, corr_vars, file_vars>>

\* options = json.load(open(".../options.json", "r")).  If json.load raises,
\* the traceback of the exception holds its frame and with it the file
\* object; once it has returned, nothing refers to the file object.
ReadOptions ==
    /\ pc = "options"
    /\ \E text \in OptionsFiles :
         IF text = Absent
         THEN /\ Fail(Exception("FileNotFoundError", <<"options.json">>))
              /\ UNCHANGED <<handles, options>>
         ELSE LET r == json_load(text) IN
              IF r.raised
              THEN /\ Fail(r.exc)
                   /\ handles' = Open(handles, OptionsFile)
                   /\ UNCHANGED options
              ELSE /\ options' = r.value
                   /\ handles' \in Unreferenced(Open(handles, OptionsFile), OptionsFile)
                   /\ pc' = "visualise"
                   /\ UNCHANGED err
    /\ UNCHANGED <<samples, embed_vars, neigh_vars, hist_vars, api_vars, path_vars, corr_vars>>

\* The rest of data_viz2: the merged table without its duplicates, and the
\* plots of its t-SNE projection.
Visualise ==
    /\ pc = "visualise"
    /\ \E n \in SampleCounts :
         /\ samples' = n
         /\ IF TSNE(n).raised
            THEN Fail(TSNE(n).exc)
            ELSE pc' = "returned" /\ UNCHANGED err
    /\ UNCHANGED <<handles, options, embed_vars, neigh_vars, hist_vars, api_vars, path_vars, corr_vars>>

VizInit ==
    /\ pc = "main"
    /\ err = NoException
    /\ args = [lang |-> "css", experiment_number |-> 1, output |-> "images"]
    /\ request = [url |-> <<>>, json |-> None]
    /\ response = [status_code |-> 0,
                   body |-> [json |-> FALSE, keys |-> {}, programs |-> <<>>, features |-> <<>>, grammar |-> ""]]
    /\ res = None
    /\ document_collections = <<>>
    /\ model = None
    /\ files = {}
    /\ data = <<>>
    /\ neighind = <<>>
    /\ rendered = <<>>
    /\ histogram_data = <<>>
    /\ centers = <<>>
    /\ borders = <<>>
    /\ bars = <<>>
    /\ body = None
    /\ reply = None
    /\ trained = <<>>
    /\ runs = <<>>
    /\ scores = None
    /\ analyses = <<>>
    /\ handles = {}
    /\ options = None
    /\ samples = 0

VizNext ==
    \/ VizMain
    \/ ReadOptions
    \/ Visualise

SpecViz == VizInit /\ [][VizNext]_vars
----------------------------------------------------------------------------
(* The embedgen command: generate and generate_embeddings *)

\* generate has answered the call of generate_embeddings.
GenerateCalled == pc \notin {"main", "generate"}

\* C1: when the service answers generate with a status other than 200, the
\* call fails with a GenerationServiceError carrying the raw status and the
\* body, and hands no normal return value back to the caller.
C1_Non200RaisesGenerationServiceError ==
    (GenerateCalled /\ response.status_code # 200) =>
        /\ pc = "failed"
        /\ err.type = "GenerationServiceError"
        /\ err.args = <<response.status_code, response.body>>

\* C2: after a non-200 response generate_embeddings trains no model and writes
\* no table file, and the run ends in an error at the top level (the only
\* position left before the error is the loop over res.programs, which raises);
\* a table file is only ever written after a 200 response.
C2_Non200TrainsAndWritesNothing ==
    /\ (GenerateCalled /\ response.status_code # 200) =>
          /\ model = None
          /\ document_collections = <<>>
          /\ files = {}
          /\ pc \in {"extract", "failed"}
          /\ pc = "failed" => err.type = "AttributeError"
          /\ pc = "extract" => ENABLED Extract
    /\ files # {} => response.status_code = 200

\* A run that a non-200 answer, with a well-formed program list in its body,
\* has ended in an error.
C2_Witness ==
    /\ pc = "failed"
    /\ response.status_code = 500
    /\ response.body.json
    /\ Len(response.body.programs) > 0
    /\ err.type = "AttributeError"

\* The table written to output1, if any.
Doc2VecTables == {f.table : f \in {g \in files : g.path = Output1(args)}}

\* C3: the doc2vec table written for a corpus contains each program identifier
\* of the corpus exactly once, and each row has exactly `dimensions` vector
\* components.
C3_TableHasEachIdentifierOnce ==
    \A t \in Doc2VecTables :
        /\ \A i \in 1..Len(res.programs) :
              Cardinality({r \in 1..Len(t.rows) : t.rows[r][1] = res.programs[i].program}) = 1
        /\ \A r \in 1..Len(t.rows) : Len(t.rows[r]) - 2 = args.dimensions

\* The number of records of a list that repeat an identifier already seen.
Repeats(programs) ==
    Cardinality({i \in 1..Len(programs) :
                   \E j \in 1..(i - 1) : programs[j].program = programs[i].program})

\* C4: the tagged documents passed to training have pairwise distinct tags,
\* and of N raw records of which D repeat an identifier already seen exactly
\* N - D remain.
C4_DocumentsHaveDistinctTags ==
    pc \in {"train", "save", "save_new"} =>
        /\ \A i, j \in 1..Len(document_collections) :
              i # j => document_collections[i].tags # document_collections[j].tags
        /\ Len(document_collections) = Len(res.programs) - Repeats(res.programs)

----------------------------------------------------------------------------
(* The neigh command: nearest_neighbors *)

\* The requested neighbour count and the size of the indexed table.
K == args.count
Size == Len(data)

\* The index has answered a query for records of the table, each named by its
\* position in 0..size-1.
Queried ==
    /\ pc \in {"render", "failed", "returned"}
    /\ neighind # <<>>
    /\ \A i \in 1..Len(args.indices) : args.indices[i] \in 0..(Len(data) - 1)

\* The neighbours kept for the i-th query: the index results minus the first.
Kept(i) == Tail(neighind[i])

\* The position of the i-th query record.
QueryRow(i) == Position(args.indices[i], Size)

\* C5: the neighbours kept for a query on a record of the indexed table never
\* include the query record itself, whatever the table holds.
C5_KeptExcludesQuery ==
    Queried =>
        \A i \in 1..Len(neighind) : QueryRow(i) \notin Range(Kept(i))

\* The distance of the row at position r to the i-th query record.
QueryDistance(i, r) == Distance2(data[QueryRow(i) + 1].x, data[r + 1].x)

\* C6: for 1 <= k < table size the neighbours kept are exactly k records, the
\* k records other than the query nearest to it, in non-decreasing distance;
\* for the rows p1=(0.0,1.0), p2=(0.0,1.1), p3=(5.0,5.0), query p1 and k=1 the
\* single neighbour is p2.
C6_KeptAreTheKNearestOthers ==
    (Queried /\ 1 <= K /\ K < Size) =>
        \A i \in 1..Len(neighind) :
            /\ Len(Kept(i)) = K
            /\ Cardinality(Range(Kept(i))) = K
            /\ QueryRow(i) \notin Range(Kept(i))
            /\ \A a, b \in 1..K : a < b => QueryDistance(i, Kept(i)[a]) <= QueryDistance(i, Kept(i)[b])
            /\ \A r \in (0..(Size - 1)) \ (Range(Kept(i)) \cup {QueryRow(i)}) :
                  QueryDistance(i, Kept(i)[K]) <= QueryDistance(i, r)
            /\ ([j \in 1..Size |-> data[j].x] = <<<<0, 10>>, <<0, 11>>, <<50, 50>>>>
                  /\ QueryRow(i) = 0 /\ K = 1) => Kept(i) = <<1>>

\* The run has passed the selection of the query rows.
Selected == pc \in {"render", "failed", "returned"}

\* C7: nearest_neighbors fails with an UnknownIdentifierError whenever a
\* requested integer is outside 0..size-1 (negative integers included), and
\* produces no neighbour list for it.  (Stated for a valid k, so that the id
\* is the one thing wrong with the request.)
C7_UnknownIdIsRejected ==
    (Selected /\ 0 < K /\ K < Size
        /\ \E i \in 1..Len(args.indices) : args.indices[i] \notin 0..(Size - 1)) =>
        /\ pc = "failed"
        /\ err.type = "UnknownIdentifierError"
        /\ neighind = <<>>

\* C8: nearest_neighbors fails with an InvalidKError for every k <= 0 and
\* every k >= table size, producing no neighbour list; for 0 < k < table size
\* it does not fail on account of k.  (Stated for valid ids, so that k is the
\* one thing that can be wrong with the request.)
C8_InvalidKIsRejected ==
    (Selected /\ \A i \in 1..Len(args.indices) : args.indices[i] \in 0..(Size - 1)) =>
        /\ (K <= 0 \/ K >= Size) =>
              /\ pc = "failed"
              /\ err.type = "InvalidKError"
              /\ neighind = <<>>
              /\ rendered = <<>>
        /\ (0 < K /\ K < Size) => err.type # "InvalidKError" /\ neighind # <<>>

----------------------------------------------------------------------------
(* Histogram borders: compute_bucket_borders *)

StrictlyIncreasing(values) ==
    \A i \in 1..(Len(values) - 1) : FracLess(values[i], values[i + 1])

\* plot_histogram has computed the borders of the centers.
Computed == pc \in {"failed", "returned"}

\* C9: for every list of C >= 1 strictly increasing centers the borders are
\* exactly C + 1 and strictly increasing.
C9_BordersAreOneMoreAndIncreasing ==
    (Computed /\ Len(centers) >= 1 /\ StrictlyIncreasing(centers)) =>
        /\ Len(borders) = Len(centers) + 1
        /\ StrictlyIncreasing(borders)

Centers124 == <<FromInt(1), FromInt(2), FromInt(4)>>

\* C10: the centers [1, 2, 4] give the borders [0.5, 1.5, 3.0, 4.5].
C10_Borders124AsInTheExample ==
    (Computed /\ centers = Centers124) =>
        borders = <<Frac(1, 2), Frac(3, 2), Frac(3, 1), Frac(9, 2)>>

\* C10, as amended: the centers [1, 2, 4] have the mean gap 1.5 and give the
\* borders [0.25, 1.5, 3.0, 4.75].
C10_Borders124 ==
    (Computed /\ centers = Centers124) =>
        borders = <<Frac(1, 4), Frac(3, 2), Frac(3, 1), Frac(19, 4)>>

\* The histogram with the centers 1, 2 and 4 has been plotted.
C10_Witness ==
    /\ pc = "returned"
    /\ centers = Centers124
    /\ Len(borders) = 4
    /\ Len(bars) = 3

\* The mean of the gaps between adjacent centers: the gaps add up to the last
\* center minus the first.
MeanGap(cs) == FracDiv(FracSub(cs[Len(cs)], cs[1]), Len(cs) - 1)

\* C11: for every list of C >= 2 centers the borders are, in order, the first
\* center minus half the mean gap, the midpoint of each adjacent pair of
\* centers, and the last center plus half the mean gap.
C11_BordersAreMidpointsAndHalfMeanGaps ==
    (Computed /\ Len(centers) >= 2) =>
        /\ Len(borders) = Len(centers) + 1
        /\ borders[1] = FracSub(centers[1], FracDiv(MeanGap(centers), 2))
        /\ \A i \in 1..(Len(centers) - 1) :
              FracAdd(borders[i + 1], borders[i + 1]) = FracAdd(centers[i], centers[i + 1])
        /\ borders[Len(centers) + 1] =
              FracAdd(centers[Len(centers)], FracDiv(MeanGap(centers), 2))

\* The histogram with the centers 0, 1 and 4 (two unequal gaps) has been
\* plotted: the first border is 0 - 1 = -1 and the last 4 + 1 = 5.
C11_Witness ==
    /\ pc = "returned"
    /\ centers = <<FromInt(0), FromInt(1), FromInt(4)>>
    /\ borders = <<FromInt(-1), Frac(1, 2), Frac(5, 2), FromInt(5)>>

----------------------------------------------------------------------------
(* The two trainers on a corpus without records *)

\* The embedgen command has got its answer from generate.
EmbedgenAnswered == pc \in {"extract", "train", "save", "save_new", "returned", "failed"}

\* The service answered 200 with an empty program list.
EmptyCorpus ==
    /\ EmbedgenAnswered
    /\ response.status_code = 200
    /\ response.body.json
    /\ response.body.programs = <<>>

\* The request to /embed carries an empty documents dictionary.
EmptyDocuments ==
    /\ body.kind = "dict"
    /\ Contains(body, "documents")
    /\ Get(body, "documents") = JDict(<<>>)

\* C12: on a corpus of zero program records (count=0 answered by an empty
\* program list) generate_embeddings ends in an error, with no model and no
\* table file; the /embed handler answers an empty documents dictionary with
\* an error and trains nothing; no table without rows is ever written.
C12_EmptyCorpusEndsInAnError ==
    /\ EmptyCorpus =>
          /\ files = {}
          /\ model = None
          /\ pc \in {"extract", "train", "failed"}
          /\ pc = "extract" => ENABLED Extract
          /\ pc = "train" => ENABLED Train
          /\ pc = "failed" => err.type = "RuntimeError"
    /\ (pc = "answered" /\ EmptyDocuments) =>
          /\ reply.status = 400
          /\ "error" \in DOMAIN reply
          /\ trained = <<>>
    /\ runs = <<>>
    /\ scores = None
    /\ analyses = <<>>
    /\ handles = {}
    /\ options = None
    /\ samples = 0
    /\ \A f \in files : f.table.rows # <<>>

\* A run of embedgen --count 0 that the empty program list of a 200 answer
\* has ended in the trainer's error.
C12_Witness ==
    /\ pc = "failed"
    /\ args.count = 0
    /\ EmptyCorpus
    /\ document_collections = <<>>
    /\ err.type = "RuntimeError"

\* The other half of the case of C12: /embed has answered a request whose
\* documents dictionary is empty.
C12_EmptyDocumentsAnswered ==
    /\ pc = "answered"
    /\ EmptyDocuments
    /\ reply = ErrorReply(<<"No documents provided">>, 400)

----------------------------------------------------------------------------
(* Optional fields of a program record *)

\* The service answered 200 with a list of program records (the v2 shape) in
\* which a record has no "graphviz" key.
GraphvizOmitted ==
    /\ EmbedgenAnswered
    /\ response.status_code = 200
    /\ response.body.json
    /\ response.body.keys = {"programs", "grammar"}
    /\ \E i \in 1..Len(response.body.programs) : response.body.programs[i].graphviz = Absent

\* C13: on a 200 response in which a program record omits an optional field
\* (graphviz), the field is empty in the corpus that generate yields, and no
\* step that later reads the record (document building, save_embedding,
\* save_embedding_new) raises an error because the field is missing.
C13_OmittedFieldRaisesNoError ==
    GraphvizOmitted => ~(pc = "failed" /\ err = Exception("KeyError", <<"graphviz">>))

----------------------------------------------------------------------------
(* The schema versions of the synthesis service *)

SchemaVersions == {"v1", "v2"}

\* The ordered program records that the body of a response describes, in
\* either shape: v1 gives the i-th program its text and the i-th feature list.
Corpus(json) ==
    IF "features" \in json.keys
    THEN [i \in 1..Len(json.programs) |->
            [program |-> json.programs[i], graphviz |-> Absent, features |-> json.features[i]]]
    ELSE json.programs

\* C14: generate supports both schema versions: it can post to
\* {endpoint}/v1/generate/{language}/{expander} and to
\* {endpoint}/v2/generate/{language}/{expander}, and from a 200 response of
\* either shape it returns the same corpus shape (the ordered program records
\* and the grammar).
C14_BothSchemaVersionsSupported ==
    /\ pc = "generate" =>
          \A v \in SchemaVersions : ENABLED (CallGenerate /\ request'.url[2] = v)
    /\ (EmbedgenAnswered /\ response.status_code = 200 /\ response.body.json) =>
          res = GenerateResults(Corpus(response.body), response.body.grammar)

----------------------------------------------------------------------------
(* The language parameter blocks of a request *)

LanguageBlocks == {"css", "taco_schedule", "taco_expression", "karel"}

\* generate has sent a request.
Sent == request.url # <<>>

\* The language blocks of the request sent that are not null.
Populated == {b \in LanguageBlocks : request.json[b] # None}

\* C15: in every request that generate serialises and sends, exactly one of
\* the language parameter blocks (css, taco_schedule, taco_expression, karel)
\* is populated and all the others are null.
C15_ExactlyOneLanguageBlock ==
    Sent => Cardinality(Populated) = 1

----------------------------------------------------------------------------
(* The configuration of the embedding trainer *)

\* A configuration value of the embedgen command that is not positive.
OutOfRange(a) == a.dimensions < 1 \/ a.epochs < 1 \/ a.min_count < 1

\* C16: every configuration value of the embedding trainer is validated as
\* positive / in range before training begins: with a value out of range the
\* run is rejected, no model is trained and no table is written.
C16_ConfigValidatedBeforeTraining ==
    (EmbedgenAnswered /\ OutOfRange(args)) => (model = None /\ files = {})

----------------------------------------------------------------------------
(* The path of the doc2vec table *)

SameParameters(a, b) ==
    /\ a.dimensions = b.dimensions
    /\ a.epochs = b.epochs
    /\ a.count = b.count
    /\ a.language = b.language

\* C17: the path to which generate_embeddings writes the doc2vec table is a
\* function of the training parameters: two runs with identical parameters
\* write to the same path, and two runs that differ in dimension, epoch
\* count, corpus size (--count) or language write to different paths.
C17_PathTellsTheParametersApart ==
    \A i, j \in 1..Len(runs) :
        SameParameters(runs[i].args, runs[j].args) <=> runs[i].output1 = runs[j].output1

\* Two runs whose numbers are the same digits split differently, under a
\* language that holds the separator, have written to two paths.
C17_Witness ==
    /\ Len(runs) = 2
    /\ runs[1].args = [dimensions |-> 1, epochs |-> 11, count |-> 1, language |-> "1_css"]
    /\ runs[2].args = [dimensions |-> 11, epochs |-> 1, count |-> 1, language |-> "1_css"]
    /\ runs[1].output1 # runs[2].output1

----------------------------------------------------------------------------
(* The embedding table files *)

\* The number of elements of a list that satisfy nothing but having the
\* identifier p.
Occurrences(programs, p) ==
    Cardinality({i \in 1..Len(programs) : programs[i].program = p})

\* C18: save_embedding and save_embedding_new write the data rows in
\* ascending order of the type column whatever the order of the programs in
\* the response, one row per program record, under the header type, graphviz,
\* x_0 .. x_{dimensions-1}, and with no index column.
C18_TableRowsSortedByType ==
    \A f \in files :
        LET t == f.table IN
        /\ Len(t.columns) = args.dimensions + 2
        /\ t.columns[1] = <<"type">>
        /\ t.columns[2] = <<"graphviz">>
        /\ \A d \in 0..(args.dimensions - 1) : t.columns[d + 3] = <<"x", d>>
        /\ \A r \in 1..Len(t.rows) : Len(t.rows[r]) = Len(t.columns)
        /\ Len(t.rows) = Len(res.programs)
        /\ \A p \in ProgramIds :
              Cardinality({r \in 1..Len(t.rows) : t.rows[r][1] = p}) = Occurrences(res.programs, p)
        /\ \A r \in 1..(Len(t.rows) - 1) : t.rows[r][1] <= t.rows[r + 1][1]

\* save_embedding has written the table of a response whose programs came
\* in descending order of their identifiers.
C18_Witness ==
    /\ pc = "save_new"
    /\ Len(res.programs) = 2
    /\ res.programs[1].program = 2
    /\ res.programs[2].program = 1
    /\ \E f \in files : f.path = Output1(args) /\ f.table.rows[1][1] = 1 /\ f.table.rows[2][1] = 2

\* The same for save_embedding_new, called for the system "mxbai-large".
C18_SaveEmbeddingNewWritten ==
    /\ pc = "returned"
    /\ Len(res.programs) = 2
    /\ res.programs[1].program = 2
    /\ res.programs[2].program = 1
    /\ \E f \in files : f.path = Output(args, "mxbai-large")
                          /\ f.table.rows[1][1] = 1 /\ f.table.rows[2][1] = 2

----------------------------------------------------------------------------
(* correlation_analysis *)

\* The values of a results dictionary.
Values(results) == {results[k] : k \in DOMAIN results}

\* C19: the result of correlation_analysis(x, y) contains the Pearson
\* coefficient and its p-value, the Spearman coefficient and its p-value, and
\* the linear-regression slope, intercept, R and R squared, all computed from
\* the one pair of sequences (x, y) passed to that call.
C19_ResultHoldsEveryStatistic ==
    \A i \in 1..Len(analyses) :
        LET a == analyses[i]
            x == a.x
            y == a.y
            r == linregress(x, y, "greater").rvalue
        IN /\ {pearsonr(x, y, "greater").statistic, spearmanr(x, y, "greater").statistic,
               linregress(x, y, "greater").slope, linregress(x, y, "greater").intercept,
               r, Squared(r)} \subseteq Values(a.analysis)
           /\ \A fn \in {"pearsonr.pvalue", "spearmanr.pvalue"} :
                 \E alternative \in {"greater", "less", "two-sided"} :
                    PValue(fn, x, y, alternative) \in Values(a.analysis)

\* The p-values of a results dictionary.
PValues(results) == {v \in Values(results) : "alternative" \in DOMAIN v}

\* C20: on every call of correlation_analysis each of the three statistics
\* (Pearson, Spearman, linear regression) is computed with the one-sided
\* alternative hypothesis "greater", whatever the input.
C20_EveryAlternativeIsGreater ==
    \A i \in 1..Len(analyses) :
        /\ {v.fn : v \in PValues(analyses[i].analysis)} =
              {"pearsonr.pvalue", "spearmanr.pvalue", "linregress.pvalue"}
        /\ \A v \in PValues(analyses[i].analysis) : v.alternative = "greater"

\* Two embedding systems have been analysed against one AST column.
C20_Witness ==
    /\ pc = "returned"
    /\ Len(analyses) = 2
    /\ analyses[1].x # analyses[2].x
    /\ analyses[2].analysis.regression_p.alternative = "greater"

----------------------------------------------------------------------------
(* The /embed handler of the doc2vec service *)

\* The handler has answered the request.
Answered == pc = "answered"

\* The body is a JSON object with a "documents" field.
HasDocumentsField == body.kind = "dict" /\ Contains(body, "documents")

\* A value is a list of strings.
ListOfStrings(v) ==
    v.kind = "list" /\ \A i \in 1..Len(v.items) : v.items[i].kind = "string"

\* The body has a non-empty documents dictionary that maps every id to a list
\* of strings.
WellFormedDocuments ==
    /\ HasDocumentsField
    /\ Get(body, "documents").kind = "dict"
    /\ Get(body, "documents").items # <<>>
    /\ \A i \in 1..Len(Get(body, "documents").items) :
          ListOfStrings(Get(body, "documents").items[i].value)

\* The document ids of the request.
RequestIds ==
    {Get(body, "documents").items[i].key : i \in 1..Len(Get(body, "documents").items)}

\* C21: a POST /embed whose body has a non-empty documents dictionary mapping
\* every id to a list of strings, with or without a config object, is answered
\* with status 200 and an embeddings object that holds exactly one vector for
\* every document id of the request.
C21_WellFormedRequestIsEmbedded ==
    (Answered /\ WellFormedDocuments) =>
        /\ reply.status = 200
        /\ "embeddings" \in DOMAIN reply
        /\ DOMAIN reply.embeddings = RequestIds

\* The body is a JSON object, list or string without a documents field.
NoDocumentsField ==
    /\ body.kind \in {"dict", "list", "string"}
    /\ ~HasDocumentsField

\* The documents field is no dictionary, is empty, or has a document that is
\* not a list of strings.
MalformedDocuments == HasDocumentsField /\ ~WellFormedDocuments

\* C22: a POST /embed whose JSON body has no documents field (whatever the
\* JSON type of the body: object, list or string), or whose documents is not
\* a dictionary, is empty, or has a document that is not a list of strings,
\* is answered with status 400 and an error message, and no model is trained
\* for that request.
C22_MalformedRequestIsRefused ==
    (Answered /\ (NoDocumentsField \/ MalformedDocuments)) =>
        /\ reply.status = 400
        /\ "error" \in DOMAIN reply
        /\ trained = <<>>

----------------------------------------------------------------------------
(* File handles *)

\* The running operation has returned or has raised.
OperationEnded == pc \in {"returned", "failed"}

\* C23: every file handle opened by an operation of the pipeline is closed by
\* the time that operation returns, on the normal path and on the error path:
\* after process_experiment returns or raises, the input file it opened is
\* closed, and the same holds for the options file read by data_viz2 and the
\* table files written by save_embedding.
C23_NoHandleOutlivesItsOperation == OperationEnded => handles = {}

\* The part of C23 that is about the table files: once save_embedding has
\* written the doc2vec table, its file is closed.
C23_TableFilesClosed ==
    (\E a \in EmbedArgs : \E f \in files : f.path = Output1(a)) => TableFile \notin handles

----------------------------------------------------------------------------
(* The root graphs of nearest_neighbors *)

\* The loop that renders the graphs has run: the table was read, the model
\* fitted and the query answered.
RenderLoopRan == pc \in {"returned", "failed"} /\ neighind # <<>>

\* The graphviz text of the row whose vector is the i-th query: the row at
\* position indices[i] of the table after duplicate removal.
QueryRowGraph(i) == data[Position(args.indices[i], Len(data)) + 1].graphviz

\* The root graphs rendered: the images of column 0.
RootGraphs == {k \in 1..Len(rendered) : rendered[k].col = 0}

\* The lookup of a root graph failed.
LookupFailed == pc = "failed" /\ err.type \in {"KeyError", "AttributeError"}

\* C24: in nearest_neighbors, the root graph rendered for the i-th requested
\* index is the graphviz text of the same table row whose vector is used as
\* the i-th query (the row at position indices[i] of the table after
\* duplicate removal), and the lookup succeeds, for every table, including
\* tables from which drop_duplicates removed rows located before that
\* position.
C24_RootGraphIsTheQueryRow ==
    RenderLoopRan =>
        /\ ~LookupFailed
        /\ \A k \in RootGraphs : rendered[k].source = QueryRowGraph(rendered[k].row + 1)

\* The case C24 names: drop_duplicates removed a row located before the row
\* of a requested index, and the indices are positions 0, 1, ... of the
\* table, no two of them equal.
RowRemovedBeforeQuery ==
    /\ \A i \in 1..Len(args.indices) : args.indices[i] >= 0
    /\ \A i, j \in 1..Len(args.indices) : i # j => args.indices[i] # args.indices[j]
    /\ \E i \in 1..Len(args.indices) : data[args.indices[i] + 1].label # args.indices[i]

\* C24, for that case alone: the lookup of the root graph succeeds.
C24_LookupSucceedsAfterRemoval ==
    (RenderLoopRan /\ RowRemovedBeforeQuery) => ~LookupFailed

----------------------------------------------------------------------------
(* The tables of a run of embedgen *)

\* The service answered 200 with at least one program record, and every
\* record carries every field that generate_embeddings reads before it
\* writes the tables of the embedding systems.
CompleteCorpus ==
    /\ EmbedgenAnswered
    /\ response.status_code = 200
    /\ response.body.json
    /\ response.body.keys = {"programs", "grammar"}
    /\ response.body.programs # <<>>
    /\ \A i \in 1..Len(response.body.programs) :
          /\ response.body.programs[i].graphviz # Absent
          /\ response.body.programs[i].features # <<>>

\* The doc2vec table of the run is written.
Doc2VecTableWritten == \E f \in files : f.path = Output1(args)

\* The table of an embedding system is written.
SystemTableWritten(name) == \E f \in files : f.path = Output(args, name)

\* C25: when the service answers 200 with at least one program record that
\* carries every field, generate_embeddings runs to completion without an
\* error and by then has written the doc2vec table and one further table for
\* each embedding system named in its embeddings list ("mxbailarge").  Once
\* the doc2vec table of such a run is written, the run does not fail, and
\* when it has returned the table of every system is there.
C25_RunCompletesWithEveryTable ==
    (CompleteCorpus /\ Doc2VecTableWritten) =>
        /\ pc # "failed"
        /\ pc = "returned" =>
              \A i \in 1..Len(embeddings) : SystemTableWritten(embeddings[i])

====
